---- MODULE Spec2Model ----
(***************************************************************************)
(* Model of code/loss/__init__.py: the Loss aggregator.                    *)
(*                                                                         *)
(* Strings are sequences of one-character strings, so that split('+'),     *)
(* split('*'), find('GAN') and float(weight) are computed, not assumed.    *)
(* Tensor cells are exact rationals <<num, den>> in lowest terms.          *)
(***************************************************************************)
EXTENDS Integers, Sequences, FiniteSets, TLC

\* ------------------------------------------------------------------ bounds
\* terms joined by '+' in a configuration string of the parse specification
MaxTerms == 2
\* calls made on one constructed object
MaxOps == 4
\* largest batch count given to end_log and display_loss
MaxBatches == 2

\* ------------------------------------------------------------ rationals
Abs(x) == IF x < 0 THEN -x ELSE x

RECURSIVE Gcd(_, _)
Gcd(a, b) == IF b = 0 THEN a ELSE Gcd(b, a % b)

\* n/d in lowest terms, d > 0
Rat(n, d) == LET g == Gcd(Abs(n), d) IN <<n \div g, d \div g>>

RZero == <<0, 1>>
ROne == <<1, 1>>
RAdd(p, q) == Rat(p[1] * q[2] + q[1] * p[2], p[2] * q[2])
RMul(p, q) == Rat(p[1] * q[1], p[2] * q[2])
RDivInt(p, n) == Rat(p[1], p[2] * n)
RInt(n) == <<n, 1>>

RECURSIVE RSum(_)
RSum(s) == IF s = <<>> THEN RZero ELSE RAdd(Head(s), RSum(Tail(s)))

\* -------------------------------------------------------------- strings
Digits == {"0", "1", "2", "3", "4", "5", "6", "7", "8", "9"}

DigitVal(c) ==
    CASE c = "0" -> 0 [] c = "1" -> 1 [] c = "2" -> 2 [] c = "3" -> 3
      [] c = "4" -> 4 [] c = "5" -> 5 [] c = "6" -> 6 [] c = "7" -> 7
      [] c = "8" -> 8 [] OTHER -> 9

\* str.split(sep) for a one-character separator: the list of the parts,
\* empty parts included
RECURSIVE SplitAcc(_, _, _)
SplitAcc(s, sep, cur) ==
    IF s = <<>> THEN <<cur>>
    ELSE IF Head(s) = sep THEN <<cur>> \o SplitAcc(Tail(s), sep, <<>>)
    ELSE SplitAcc(Tail(s), sep, Append(cur, Head(s)))

Split(s, sep) == SplitAcc(s, sep, <<>>)

\* str.find(sub): the 0-based index of the first occurrence, or -1
RECURSIVE FindFrom(_, _, _)
FindFrom(s, sub, i) ==
    IF i + Len(sub) > Len(s) THEN -1
    ELSE IF SubSeq(s, i + 1, i + Len(sub)) = sub THEN i
    ELSE FindFrom(s, sub, i + 1)

Find(s, sub) == FindFrom(s, sub, 0)

RECURSIVE DigitsVal(_, _)
DigitsVal(s, acc) ==
    IF s = <<>> THEN acc ELSE DigitsVal(Tail(s), 10 * acc + DigitVal(Head(s)))

RECURSIVE Pow10(_)
Pow10(n) == IF n = 0 THEN 1 ELSE 10 * Pow10(n - 1)

NotANumber == <<0, 0>>

\* float(weight) on decimal literals [-]digits[.digits]; NotANumber stands
\* for the ValueError float() raises on anything else
ParseFloat(w) ==
    LET neg == w # <<>> /\ Head(w) = "-"
        body == IF neg THEN Tail(w) ELSE w
        parts == Split(body, ".")
        ip == parts[1]
        fp == IF Len(parts) = 2 THEN parts[2] ELSE <<>>
        ok == /\ Len(parts) <= 2
              /\ Len(ip) + Len(fp) > 0
              /\ \A i \in 1..Len(ip) : ip[i] \in Digits
              /\ \A i \in 1..Len(fp) : fp[i] \in Digits
        mag == Rat(DigitsVal(ip \o fp, 0), Pow10(Len(fp)))
    IN  IF ~ok THEN NotANumber
        ELSE IF neg THEN <<-mag[1], mag[2]>> ELSE mag


\* ------------------------------------------------- configuration strings
sPlus == "+"
sStar == "*"
sMSE == <<"M", "S", "E">>
sL1 == <<"L", "1">>
sCharbonnier == <<"C", "h", "a", "r", "b", "o", "n", "n", "i", "e", "r">>
sGradL2 == <<"G", "r", "a", "d", "L", "2">>
sSSIM == <<"S", "S", "I", "M">>
sMSSSIM == <<"M", "S", "S", "S", "I", "M">>
sWeightedMSE == <<"W", "e", "i", "g", "h", "t", "e", "d", "M", "S", "E">>
sVGG == <<"V", "G", "G">>
sGAN == <<"G", "A", "N">>
sDIS == <<"D", "I", "S">>
sTotal == <<"T", "o", "t", "a", "l">>
\* kinds used as inputs only
sVGG54 == <<"V", "G", "G", "5", "4">>
sWGAN == <<"W", "G", "A", "N">>
sFoo == <<"F", "o", "o">>

\* ------------------------------------------------------ loss functions
\* A callable is the object one branch of the constructor built: its class,
\* the index of the term that built it (its identity), and its argument.
Fn(cls, id, arg) == [cls |-> cls, id |-> id, arg |-> arg]
NoneFn == Fn("None", 0, <<>>)
\* the local loss_function before its first assignment
Unbound == Fn("unbound", 0, <<>>)

\* the if/elif chain of the constructor: no branch, no assignment
LossFunction(loss_type, k, prev) ==
    IF loss_type = sMSE THEN Fn("MSELoss", k, <<>>)
    ELSE IF loss_type = sL1 THEN Fn("L1Loss", k, <<>>)
    ELSE IF loss_type = sCharbonnier THEN Fn("Charbonnier", k, <<>>)
    ELSE IF loss_type = sGradL2 THEN Fn("GradL2", k, <<>>)
    ELSE IF loss_type = sSSIM THEN Fn("SSIM", k, <<>>)
    ELSE IF loss_type = sMSSSIM THEN Fn("MSSSIM", k, <<>>)
    ELSE IF loss_type = sWeightedMSE THEN Fn("WeightedMSE", k, <<>>)
    ELSE IF Find(loss_type, sVGG) >= 0
         THEN Fn("VGG", k, SubSeq(loss_type, 4, Len(loss_type)))
    ELSE IF Find(loss_type, sGAN) >= 0 THEN Fn("Adversarial", k, loss_type)
    ELSE prev

Entry(type, weight, function) ==
    [type |-> type, weight |-> weight, function |-> function]

DisEntry == Entry(sDIS, ROne, NoneFn)
TotalEntry == Entry(sTotal, RZero, NoneFn)

\* mutant: the DIS entry appended before the term it reads
TermEntriesDisFirst(loss_type, w, f) ==
    (IF Find(loss_type, sGAN) >= 0 THEN <<DisEntry>> ELSE <<>>)
        \o <<Entry(loss_type, w, f)>>

\* the entries one term appends: the term, then DIS after a GAN kind
TermEntries(loss_type, w, f) ==
    <<Entry(loss_type, w, f)>>
        \o (IF Find(loss_type, sGAN) >= 0 THEN <<DisEntry>> ELSE <<>>)

Failed(e) == [err |-> e, loss |-> <<>>]

\* the loop over args.loss.split('+'); fn is loss_function as the previous
\* iteration left it
RECURSIVE ParseTerms(_, _, _, _)
ParseTerms(terms, k, loss, fn) ==
    IF k > Len(terms) THEN [err |-> "none", loss |-> loss]
    ELSE LET parts == Split(terms[k], sStar) IN
         IF Len(parts) # 2 THEN Failed("ValueError")
         ELSE LET loss_type == parts[2]
                  f == LossFunction(loss_type, k, fn)
                  w == ParseFloat(parts[1])
              IN  IF w = NotANumber THEN Failed("ValueError")
                  ELSE IF f = Unbound THEN Failed("UnboundLocalError")
                  ELSE ParseTerms(terms, k + 1,
                                  loss \o TermEntries(loss_type, w, f), f)

\* mutant: the Total entry appended whatever the length of the list
WithTotalAlways(loss) == Append(loss, TotalEntry)

\* the Total entry is appended when the list has more than one entry
WithTotal(loss) == IF Len(loss) > 1 THEN Append(loss, TotalEntry) ELSE loss

BuildLoss(config) ==
    LET r == ParseTerms(Split(config, sPlus), 1, <<>>, Unbound)
    IN  IF r.err # "none" THEN r ELSE [err |-> "none", loss |-> WithTotal(r.loss)]

\* self.loss_module: the callables of the list, in order
RECURSIVE Modules(_)
Modules(loss) ==
    IF loss = <<>> THEN <<>>
    ELSE (IF Head(loss).function # NoneFn THEN <<Head(loss).function>> ELSE <<>>)
             \o Modules(Tail(loss))

\* the 1x1 intensity kernel, in thousandths
LumaR == 299
LumaG == 587
LumaB == 114
Thousand == 1000
RgbFull == 255
RgbUnit == 1

ZeroConv == <<RZero, RZero, RZero>>
LumaConv == <<Rat(LumaR, Thousand), Rat(LumaG, Thousand), Rat(LumaB, Thousand)>>
NoConv == <<>>

\* lines 26-33: the kernel (NoConv without intensity mode) or the error
IntensityConv(intensity_loss, rgb_range) ==
    IF ~intensity_loss THEN [err |-> "none", conv |-> NoConv]
    ELSE IF rgb_range = RgbFull THEN [err |-> "none", conv |-> LumaConv]
    ELSE IF rgb_range = RgbUnit THEN [err |-> "NotImplementedError", conv |-> NoConv]
    ELSE [err |-> "none", conv |-> ZeroConv]

\* line 100: the module list is wrapped in DataParallel
Wrapped(cpu, n_GPUs) == ~cpu /\ n_GPUs > 1

\* hasattr(l, 'scheduler'): the adversarial module owns a scheduler
HasScheduler(f) == f.cls = "Adversarial"

\* ------------------------------------------------------------- forward
\* conv2d with the 1x1 kernel: one channel, the weighted sum of the three
Project(conv, px) ==
    <<RSum([c \in 1..Len(px) |-> RMul(conv[c], px[c])])>>

\* lines 110-116: what the term callables are given for one input tensor
Prepare(px, conv, normalize, rgb_range) ==
    LET p == IF conv # NoConv THEN Project(conv, px) ELSE px
    IN  IF normalize THEN [c \in 1..Len(p) |-> RDivInt(p[c], rgb_range)] ELSE p

\* self.log[-1, i] += v
AddCell(row, i, v) == [row EXCEPT ![i] = RAdd(@, v)]

\* the loop of lines 118-125 from entry i on. vals[i] is what the callable of
\* entry i returns, dis what the adversarial module left in its .loss.
\* A DIS entry whose predecessor has no .loss raises in mid-loop.
RECURSIVE ForwardLoop(_, _, _, _, _, _)
ForwardLoop(loss, i, row, losses, vals, dis) ==
    IF i > Len(loss) THEN [err |-> "none", row |-> row, losses |-> losses]
    ELSE IF loss[i].function # NoneFn
         THEN LET effective_loss == RMul(loss[i].weight, RInt(vals[i]))
              IN  ForwardLoop(loss, i + 1, AddCell(row, i, effective_loss),
                              Append(losses, effective_loss), vals, dis)
    ELSE IF loss[i].type = sDIS
         THEN IF i > 1 /\ loss[i - 1].function.cls = "Adversarial"
              THEN ForwardLoop(loss, i + 1, AddCell(row, i, RInt(dis)),
                               losses, vals, dis)
              ELSE [err |-> "AttributeError", row |-> row, losses |-> losses]
    ELSE ForwardLoop(loss, i + 1, row, losses, vals, dis)

\* mutant: the discriminator readout added to the returned sum
ForwardRowDisInSum(loss, row, vals, dis) ==
    LET r == ForwardLoop(loss, 1, row, <<>>, vals, dis)
        loss_sum == RAdd(RSum(r.losses), RInt(dis))
    IN  IF r.err # "none" THEN [err |-> r.err, row |-> r.row, ret |-> <<>>]
        ELSE [err |-> "none",
              row |-> IF Len(loss) > 1
                      THEN AddCell(r.row, Len(r.row), loss_sum) ELSE r.row,
              ret |-> <<loss_sum>>]

\* mutant: the discriminator readout added to the last column only
ForwardRowTotalDis(loss, row, vals, dis) ==
    LET r == ForwardLoop(loss, 1, row, <<>>, vals, dis)
        loss_sum == RSum(r.losses)
    IN  IF r.err # "none" THEN [err |-> r.err, row |-> r.row, ret |-> <<>>]
        ELSE [err |-> "none",
              row |-> IF Len(loss) > 1
                      THEN AddCell(r.row, Len(r.row),
                                   RAdd(loss_sum, RInt(dis)))
                      ELSE r.row,
              ret |-> <<loss_sum>>]

\* lines 127-131: the returned sum, also added to the last column when the
\* list has more than one entry
ForwardRow(loss, row, vals, dis) ==
    LET r == ForwardLoop(loss, 1, row, <<>>, vals, dis)
        loss_sum == RSum(r.losses)
    IN  IF r.err # "none" THEN [err |-> r.err, row |-> r.row, ret |-> <<>>]
        ELSE [err |-> "none",
              row |-> IF Len(loss) > 1
                      THEN AddCell(r.row, Len(r.row), loss_sum) ELSE r.row,
              ret |-> <<loss_sum>>]

\* ------------------------------------------------------------ the log
ZeroRow(n) == [i \in 1..n |-> RZero]

\* mutant: one column per callable instead of one per entry
StartLogModules(log, loss) == Append(log, ZeroRow(Len(Modules(loss))))

\* torch.cat((self.log, torch.zeros(1, len(self.loss))))
StartLog(log, loss) == Append(log, ZeroRow(Len(loss)))

\* mutant: the row divided by one more than the batch count
EndLogOffByOne(log, n_batches) ==
    [log EXCEPT ![Len(log)] = [i \in DOMAIN @ |-> RDivInt(@[i], n_batches + 1)]]

\* self.log[-1].div_(n_batches)
EndLog(log, n_batches) ==
    [log EXCEPT ![Len(log)] = [i \in DOMAIN @ |-> RDivInt(@[i], n_batches)]]

TenThousand == 10000

\* '{:.4f}'.format(q): q in ten-thousandths, rounded half to even
Fmt4(q) ==
    LET n == q[1] * TenThousand
        lo == n \div q[2]
        twice == 2 * (n - lo * q[2])
    IN  IF twice > q[2] \/ (twice = q[2] /\ lo % 2 = 1) THEN lo + 1 ELSE lo

\* display_loss: zip(self.loss, self.log[-1]), each value over batch + 1
DisplayLoss(loss, row, batch) ==
    LET n_samples == batch + 1
        m == IF Len(loss) < Len(row) THEN Len(loss) ELSE Len(row)
    IN  [i \in 1..m |-> <<loss[i].type, Fmt4(RDivInt(row[i], n_samples))>>]

\* ------------------------------------------------------- schedulers
\* l.scheduler.step(), times over, for every module of mods that has one;
\* sched[id] counts the steps of the scheduler of the callable id
RECURSIVE StepAll(_, _, _)
StepAll(mods, sched, times) ==
    IF mods = <<>> THEN sched
    ELSE LET l == Head(mods)
             s == IF HasScheduler(l)
                  THEN [sched EXCEPT ![l.id] = @ + times] ELSE sched
         IN  StepAll(Tail(mods), s, times)

\* get_loss_module: direct access when n_GPUs = 1, else .module, which only
\* the DataParallel wrapper has
GetLossModule(n_GPUs, wrapped, mods) ==
    IF n_GPUs = 1 THEN [err |-> "none", mods |-> mods]
    ELSE IF wrapped THEN [err |-> "none", mods |-> mods]
    ELSE [err |-> "AttributeError", mods |-> <<>>]

\* step()
StepResult(n_GPUs, wrapped, mods, sched) ==
    LET g == GetLossModule(n_GPUs, wrapped, mods)
    IN  IF g.err # "none" THEN [err |-> g.err, sched |-> sched]
        ELSE [err |-> "none", sched |-> StepAll(g.mods, sched, 1)]

\* ------------------------------------------------------- persistence
NoFile == [present |-> FALSE, log |-> <<>>, params |-> 0]

\* save: loss.pt and loss_log.pt
SaveResult(log, params) == [present |-> TRUE, log |-> log, params |-> params]

\* iterating self.loss_module itself: a DataParallel wrapper is no iterable
LoadModules(wrapped, mods) ==
    IF wrapped THEN [err |-> "TypeError", mods |-> <<>>]
    ELSE [err |-> "none", mods |-> mods]

\* load: both artifacts restored, then every scheduler stepped once per row
LoadResult(disk, wrapped, mods, log, params, sched) ==
    IF ~disk.present
    THEN [err |-> "FileNotFoundError", log |-> log, params |-> params,
          sched |-> sched]
    ELSE LET it == LoadModules(wrapped, mods)
         IN  [err |-> it.err, log |-> disk.log, params |-> disk.params,
              sched |-> IF it.err # "none" THEN sched
                        ELSE StepAll(it.mods, sched, Len(disk.log))]

\* ---------------------------------------------------------------- state
VARIABLES
    args,           \* the options the constructor is given
    pc,             \* "new", "ready" (constructed) or "failed" (__init__ raised)
    err,            \* the exception the last call raised, or "none"
    lastOp,         \* the last call made
    ret,            \* what the last call returned: <<>> is None
    loss,           \* self.loss
    loss_module,    \* the callables held by self.loss_module
    wrapped,        \* self.loss_module is a DataParallel wrapper
    intensity_conv, \* self.intensity_conv, NoConv when never assigned
    log,            \* self.log: a sequence of rows
    sched,          \* steps taken by the scheduler of each adversarial callable
    params,         \* version of the learned state held by the loss modules
    disk,           \* loss.pt and loss_log.pt in the checkpoint directory
    fed,            \* the (predicted, target) pair last given to the callables
    batches,        \* inputs and results of the forward calls since the
                    \* last start_log
    ops,            \* calls made since construction
    phase           \* how the last row was built: "none", "open" (start_log,
                    \* then forward calls only), "closed" (then end_log with
                    \* the number of those calls) or "mixed"

vars == <<args, pc, err, lastOp, ret, loss, loss_module, wrapped,
          intensity_conv, log, sched, params, disk, fed, batches, ops, phase>>

\* ------------------------------------------------------------- inputs
Join(a, b) == a \o <<sPlus>> \o b
Term(w, k) == w \o <<sStar>> \o k

Weights == {<<"1">>, <<"0", ".", "5">>, <<"x">>}
Kinds == {sMSE, sL1, sVGG54, sGAN, sWGAN, sFoo}
\* well-formed terms, a term without '*', a term with two
Terms == {Term(w, k) : w \in Weights, k \in Kinds}
             \cup {sMSE, Term(<<"1">>, Term(<<"2">>, sL1))}

RECURSIVE Strings(_)
Strings(n) ==
    IF n = 1 THEN Terms
    ELSE Strings(n - 1) \cup {Join(s, t) : s \in Strings(n - 1), t \in Terms}

Args(config, cpu, n, intensity, normalized, rgb, load) ==
    [loss |-> config, cpu |-> cpu, n_GPUs |-> n, intensity_loss |-> intensity,
     normalized_loss |-> normalized, rgb_range |-> rgb, load |-> load]

\* every configuration string of at most MaxTerms terms, on one CPU device
ParseArgs ==
    {Args(c, TRUE, 1, FALSE, FALSE, RgbFull, FALSE) : c \in Strings(MaxTerms)}

\* the configurations the operations are run under
OpStrings ==
    {Term(<<"1">>, sMSE),
     Join(Term(<<"1">>, sMSE), Term(<<"0", ".", "5">>, sL1)),
     Term(<<"1">>, sGAN),
     Join(Term(<<"2">>, sGAN), Term(<<"1">>, sMSE)),
     Join(Term(<<"1">>, sGAN), Term(<<"1">>, sFoo))}

\* device counts args.n_GPUs
NGpus == {1, 2}

OpArgs ==
    {Args(c, TRUE, 1, FALSE, FALSE, RgbFull, FALSE) : c \in OpStrings}
    \cup {Args(Term(<<"1">>, sGAN), cpu, n, FALSE, FALSE, RgbFull, ld) :
        cpu \in BOOLEAN, n \in NGpus, ld \in BOOLEAN}
    \cup {Args(Term(<<"1">>, sMSE), TRUE, 1, i, nz, rgb, FALSE) :
        i \in BOOLEAN, nz \in BOOLEAN, rgb \in {RgbUnit, 100, RgbFull}}

\* values a term callable, or the discriminator, may report
Vals == {0, 1}

\* one (predicted, target) pair of 3-channel pixels
Batches == {[sr |-> <<RInt(255), RInt(255), RInt(255)>>,
             hr |-> <<RInt(0), RInt(255), RInt(0)>>]}

\* what an earlier run of the same configuration left in the directory:
\* start_log, end_log, save
PriorCheckpoint(a) ==
    LET b == BuildLoss(a.loss)
    IN  [present |-> TRUE, log |-> <<ZeroRow(Len(b.loss))>>, params |-> 1]

RealIdx(l) == {i \in 1..Len(l) : l[i].function # NoneFn}
HasDis(l) == \E i \in 1..Len(l) : l[i].function = NoneFn /\ l[i].type = sDIS
SchedIds(mods) == {mods[i].id : i \in {j \in 1..Len(mods) : HasScheduler(mods[j])}}

\* ------------------------------------------------------------ actions
Blank ==
    /\ pc = "new" /\ err = "none" /\ lastOp = "none" /\ ret = <<>>
    /\ loss = <<>> /\ loss_module = <<>> /\ wrapped = FALSE
    /\ intensity_conv = NoConv /\ log = <<>> /\ sched = <<>> /\ params = 0
    /\ fed = <<>> /\ batches = <<>> /\ ops = 0 /\ phase = "none"

Init ==
    /\ args \in OpArgs
    /\ disk \in {NoFile, PriorCheckpoint(args)}
    /\ Blank

InitParse ==
    /\ args \in ParseArgs
    /\ disk = NoFile
    /\ Blank

\* __init__ raised: no object
Fail(e) ==
    /\ pc' = "failed" /\ err' = e
    /\ UNCHANGED <<loss, loss_module, wrapped, intensity_conv, log, sched,
                   params>>

\* Loss.__init__
Construct ==
    /\ pc = "new"
    /\ lastOp' = "construct"
    /\ UNCHANGED <<args, ret, disk, fed, batches, ops, phase>>
    /\ LET ic == IntensityConv(args.intensity_loss, args.rgb_range)
           b == BuildLoss(args.loss)
           mods == Modules(b.loss)
           w == Wrapped(args.cpu, args.n_GPUs)
           s0 == [id \in SchedIds(mods) |-> 0]
           ld == LoadResult(disk, w, mods, <<>>, 0, s0)
       IN  IF ic.err # "none" THEN Fail(ic.err)
           ELSE IF b.err # "none" THEN Fail(b.err)
           ELSE IF args.load /\ ld.err # "none" THEN Fail(ld.err)
           ELSE /\ pc' = "ready" /\ err' = "none"
                /\ loss' = b.loss
                /\ loss_module' = mods
                /\ wrapped' = w
                /\ intensity_conv' = ic.conv
                /\ log' = IF args.load THEN ld.log ELSE <<>>
                /\ params' = IF args.load THEN ld.params ELSE 0
                /\ sched' = IF args.load THEN ld.sched ELSE s0

\* start_log
Start ==
    /\ pc = "ready"
    /\ ops < MaxOps /\ ops' = ops + 1
    /\ log' = StartLog(log, loss)
    /\ lastOp' = "start_log" /\ err' = "none" /\ ret' = <<>>
    /\ batches' = <<>> /\ phase' = "open"
    /\ UNCHANGED <<args, pc, loss, loss_module, wrapped, intensity_conv,
                   sched, params, disk, fed>>

\* forward(sr, hr)
Forward ==
    /\ pc = "ready"
    /\ ops < MaxOps /\ ops' = ops + 1
    /\ \E b \in Batches, vals \in [RealIdx(loss) -> Vals],
          dis \in (IF HasDis(loss) THEN Vals ELSE {0}) :
        /\ fed' = [sr |-> Prepare(b.sr, intensity_conv, args.normalized_loss,
                                  args.rgb_range),
                   hr |-> Prepare(b.hr, intensity_conv, args.normalized_loss,
                                  args.rgb_range)]
        /\ IF log = <<>>
           THEN /\ err' = "IndexError" /\ ret' = <<>>
                /\ UNCHANGED <<log, batches, phase>>
           ELSE LET r == ForwardRow(loss, log[Len(log)], vals, dis)
                IN  /\ err' = r.err /\ ret' = r.ret
                    /\ log' = [log EXCEPT ![Len(log)] = r.row]
                    /\ batches' = Append(batches, [vals |-> vals, dis |-> dis,
                                                  ret |-> r.ret])
                    /\ phase' = IF r.err = "none" /\ phase = "open"
                                THEN "open" ELSE "mixed"
    /\ lastOp' = "forward"
    /\ UNCHANGED <<args, pc, loss, loss_module, wrapped, intensity_conv,
                   sched, params, disk>>

\* end_log(n_batches)
End ==
    /\ pc = "ready"
    /\ ops < MaxOps /\ ops' = ops + 1
    /\ \E n_batches \in 1..MaxBatches :
        IF log = <<>>
        THEN /\ err' = "IndexError"
             /\ UNCHANGED <<log, phase>>
        ELSE /\ err' = "none"
             /\ log' = EndLog(log, n_batches)
             /\ phase' = IF phase = "open" /\ n_batches = Len(batches)
                         THEN "closed" ELSE "mixed"
    /\ lastOp' = "end_log" /\ ret' = <<>>
    /\ UNCHANGED <<args, pc, loss, loss_module, wrapped, intensity_conv,
                   sched, params, disk, fed, batches>>

\* display_loss(batch)
Display ==
    /\ pc = "ready"
    /\ ops < MaxOps /\ ops' = ops + 1
    /\ \E batch \in 0..(MaxBatches - 1) :
        IF log = <<>>
        THEN err' = "IndexError" /\ ret' = <<>>
        ELSE err' = "none" /\ ret' = DisplayLoss(loss, log[Len(log)], batch)
    /\ lastOp' = "display_loss"
    /\ UNCHANGED <<args, pc, loss, loss_module, wrapped, intensity_conv, log,
                   sched, params, disk, fed, batches, phase>>

\* step()
Step ==
    /\ pc = "ready"
    /\ ops < MaxOps /\ ops' = ops + 1
    /\ LET r == StepResult(args.n_GPUs, wrapped, loss_module, sched)
       IN  err' = r.err /\ sched' = r.sched
    /\ lastOp' = "step" /\ ret' = <<>>
    /\ UNCHANGED <<args, pc, loss, loss_module, wrapped, intensity_conv, log,
                   params, disk, fed, batches, phase>>

\* save(apath)
Save ==
    /\ pc = "ready"
    /\ ops < MaxOps /\ ops' = ops + 1
    /\ disk' = SaveResult(log, params)
    /\ lastOp' = "save" /\ err' = "none" /\ ret' = <<>>
    /\ UNCHANGED <<args, pc, loss, loss_module, wrapped, intensity_conv, log,
                   sched, params, fed, batches, phase>>

\* load(apath, cpu)
Load ==
    /\ pc = "ready"
    /\ ops < MaxOps /\ ops' = ops + 1
    /\ LET r == LoadResult(disk, wrapped, loss_module, log, params, sched)
       IN  /\ err' = r.err /\ log' = r.log /\ params' = r.params
           /\ sched' = r.sched
           /\ phase' = IF disk.present THEN "mixed" ELSE phase
    /\ lastOp' = "load" /\ ret' = <<>>
    /\ UNCHANGED <<args, pc, loss, loss_module, wrapped, intensity_conv, disk,
                   fed, batches>>

Next == Construct \/ Start \/ Forward \/ End \/ Display \/ Step \/ Save \/ Load

Spec == Init /\ [][Next]_vars

\* construction alone, over every configuration string
NextParse == Construct

SpecParse == InitParse /\ [][NextParse]_vars

\* ====================================================== the claims
IsReal(e) == e.function # NoneFn
IsTotal(e) == e = TotalEntry
IsDis(e) == e = DisEntry
HasTotal(l) == \E i \in 1..Len(l) : IsTotal(l[i])
NReal(l) == Cardinality(RealIdx(l))
LastRow == log[Len(log)]

\* a kind the if/elif chain has a branch for
Recognized(k) == LossFunction(k, 1, Unbound) # Unbound

\* the weight and the kind of the k-th term of a configuration string
TermsOf(config) == Split(config, sPlus)
KindOf(t) == Split(t, sStar)[2]
WeightOf(t) == ParseFloat(Split(t, sStar)[1])

sOneGAN == Term(<<"1">>, sGAN)
sGANThenMSE == Join(Term(<<"1">>, sGAN), Term(<<"1">>, sMSE))

\* ---- C1
\* C1 as stated: the list has a Total entry iff it has more than one real
\* term, and "1*GAN" gives two entries without Total.
C1_TotalIffManyReal ==
    pc = "ready" =>
        /\ HasTotal(loss) <=> NReal(loss) > 1
        /\ args.loss = sOneGAN => Len(loss) = 2 /\ ~HasTotal(loss)

\* C1 amended: the list has a Total entry (weight 0, no callable, last, once)
\* iff the entries before it are more than one, that is iff it has more than
\* one real term or a discriminator entry; "1*GAN" gives the adversarial
\* term, the discriminator entry and Total.
C1_TotalIffManyEntries ==
    pc = "ready" =>
        /\ HasTotal(loss) <=> (NReal(loss) > 1 \/ HasDis(loss))
        /\ \A i \in 1..Len(loss) : IsTotal(loss[i]) => i = Len(loss)
        /\ \A i \in 1..Len(loss) :
              (~IsReal(loss[i]) /\ loss[i].type = sTotal) => IsTotal(loss[i])
        /\ args.loss = sOneGAN =>
              loss = <<Entry(sGAN, ROne, Fn("Adversarial", 1, sGAN)),
                       DisEntry, TotalEntry>>

C1_Witness ==
    pc = "ready" /\ args.loss = sOneGAN /\ Len(loss) = 3 /\ NReal(loss) = 1

\* ---- C2
\* C2 as stated: a configuration string with a term of unrecognized kind
\* never constructs, and no entry pairs an unrecognized kind with a callable.
C2_UnknownKindFails ==
    /\ (lastOp = "construct"
          /\ \E k \in 1..Len(TermsOf(args.loss)) :
                /\ Len(Split(TermsOf(args.loss)[k], sStar)) = 2
                /\ ~Recognized(KindOf(TermsOf(args.loss)[k])))
       => pc = "failed"
    /\ \A i \in 1..Len(loss) : IsReal(loss[i]) => Recognized(loss[i].type)

\* ---- C8
RealEntries(l) == SelectSeq(l, IsReal)

\* C8 as stated: every synthetic entry is after every real term.
C8_SyntheticAfterReal ==
    pc = "ready" =>
        \A i, j \in 1..Len(loss) :
            (~IsReal(loss[i]) /\ IsReal(loss[j])) => j < i

\* C8 amended: the real terms are the terms of the string, in its order and
\* with its weights; a discriminator entry is exactly what follows a term
\* whose kind contains GAN (before any later term); Total, when present, is
\* the last entry.
C8_Order ==
    pc = "ready" =>
        LET terms == TermsOf(args.loss)
            real == RealEntries(loss)
        IN  /\ Len(real) = Len(terms)
            /\ \A k \in 1..Len(terms) :
                  /\ real[k].type = KindOf(terms[k])
                  /\ real[k].weight = WeightOf(terms[k])
            /\ \A i \in 1..Len(loss) :
                  IsDis(loss[i]) <=>
                      (i > 1 /\ IsReal(loss[i - 1])
                             /\ Find(loss[i - 1].type, sGAN) >= 0)
            /\ \A i \in 1..Len(loss) :
                  IsReal(loss[i]) \/ IsDis(loss[i]) \/ (IsTotal(loss[i]) /\ i = Len(loss))

C8_Witness ==
    /\ pc = "ready" /\ args.loss = sGANThenMSE
    /\ Len(loss) = 4 /\ IsDis(loss[2]) /\ IsReal(loss[3]) /\ IsTotal(loss[4])

\* ---- C3
\* C3 as stated: under intensity mode with a color range other than 255 no
\* forward call returns a value, and under range 255 the kernel holds the
\* luma weights.
C3_IntensityRange ==
    /\ (args.intensity_loss /\ args.rgb_range # RgbFull)
          => ~(lastOp = "forward" /\ ret # <<>>)
    /\ (args.intensity_loss /\ args.rgb_range = RgbFull /\ pc = "ready")
          => intensity_conv = LumaConv

\* ---- C4
\* the sum over the entries with a callable of weight * callable(sr, hr)
WeightedSum(l, vals) ==
    RSum([k \in 1..Len(l) |->
            IF IsReal(l[k]) THEN RMul(l[k].weight, RInt(vals[k])) ELSE RZero])

\* C4: a forward call that returns, returns the sum over the entries with a
\* callable of weight * value (the discriminator readout and Total add
\* nothing), and when the list has more than one entry its last entry is
\* Total and that sum is added to the last column of the last row.
C4_ForwardSum ==
    [][(lastOp' = "forward" /\ err' = "none") =>
          LET in == batches'[Len(batches')]
              sum == WeightedSum(loss, in.vals)
          IN  /\ ret' = <<sum>>
              /\ Len(loss) > 1 =>
                    /\ IsTotal(loss[Len(loss)])
                    /\ log'[Len(log')][Len(loss)]
                          = RAdd(LastRow[Len(loss)], sum)]_vars

C4_Witness ==
    /\ lastOp = "forward" /\ err = "none"
    /\ HasDis(loss) /\ NReal(loss) > 1
    /\ batches[Len(batches)].dis = 1
    /\ ret = <<RInt(2)>>

\* ---- C5
\* the sum over the recorded batches of f(batch)
RECURSIVE SumOver(_, _, _)
SumOver(bs, i, l) ==
    IF bs = <<>> THEN RZero
    ELSE RAdd(IF i = 0 THEN Head(bs).ret[1]
              ELSE RMul(l[i].weight, RInt(Head(bs).vals[i])),
              SumOver(Tail(bs), i, l))

\* C5: after start_log, n >= 1 forward calls and end_log(n), every column of
\* a real term holds the average of the term's n weighted values and the
\* Total column the average of the n returned sums.
C5_Average ==
    phase = "closed" =>
        LET n == Len(batches) IN
        /\ n >= 1
        /\ \A i \in RealIdx(loss) :
              LastRow[i] = RDivInt(SumOver(batches, i, loss), n)
        /\ Len(loss) > 1 =>
              LastRow[Len(loss)] = RDivInt(SumOver(batches, 0, loss), n)

C5_Witness ==
    /\ phase = "closed" /\ lastOp = "end_log" /\ Len(batches) = 2
    /\ Len(loss) > 1
    /\ batches[1].ret # batches[2].ret
    /\ LastRow[Len(loss)] = Rat(3, 4)

\* ---- C6
\* the callables held once by the module list
Single(id) == Cardinality({i \in 1..Len(loss_module) : loss_module[i].id = id}) = 1

\* C6 as stated: a load that finds its files completes, in every device
\* configuration, and has stepped every scheduler once per restored row
\* (stated for the schedulers of the callables the module list holds once).
C6_LoadAdvances ==
    [][(lastOp' = "load" /\ disk.present) =>
          /\ err' = "none"
          /\ \A id \in DOMAIN sched :
                Single(id) => sched'[id] = sched[id] + Len(log')]_vars

\* ---- C7
\* C7: every row has one column per entry of the loss list; start_log
\* appends one zero row; no call but load removes or moves a row.
C7_LogShape ==
    /\ [](\A r \in 1..Len(log) : Len(log[r]) = Len(loss))
    /\ [][/\ lastOp' = "start_log" =>
                log' = Append(log, [i \in 1..Len(loss) |-> RZero])
          /\ lastOp' \notin {"load", "construct"} =>
                /\ Len(log') >= Len(log)
                /\ \A r \in 1..(Len(log) - 1) : log'[r] = log[r]]_vars

C7_Witness ==
    /\ Len(log) = 2 /\ Len(loss) = 3 /\ lastOp = "forward" /\ err = "none"
    /\ log[1] # ZeroRow(3) /\ log[2] # ZeroRow(3)

\* ---- C9
\* C9 as stated: step never fails, steps every scheduler once and changes
\* nothing else, whatever the CPU flag and the device count (stated for the
\* schedulers of the callables the module list holds once).
C9_StepAdvances ==
    [][lastOp' = "step" =>
          /\ err' = "none"
          /\ \A id \in DOMAIN sched : Single(id) => sched'[id] = sched[id] + 1
          /\ UNCHANGED <<loss, loss_module, log, params, disk>>]_vars

====
